---- MODULE Spec2Model ----
(***************************************************************************)
(* A model of the PDF de-duplication and entity extraction pipeline:       *)
(*   tools/extractPDFdata.py  build_report, canonicalize_person,           *)
(*                            cluster_people, extract_entities_from_text,  *)
(*                            build_edges_json                             *)
(*   tools/utilities.py       normalize_text, strip_middle_initial,        *)
(*                            similarity, score_person, sha256_file,       *)
(*                            extract_text_from_pdf, store_document_in_db  *)
(*                                                                         *)
(* Texts and names are sequences of one-character strings.  A similarity   *)
(* score is the exact fraction <<numerator, denominator>> that             *)
(* SequenceMatcher.ratio() divides; a threshold is given in hundredths.    *)
(***************************************************************************)
EXTENDS Integers, Sequences, FiniteSets, TLC

VARIABLES
    \* ---- build_report (extractPDFdata.py:179-361) ----
    disk,           \* the files under the root: path -> file
    files,          \* the argument files of build_report: a list of paths
    near_thresh,    \* argument near_thresh, in hundredths
    partial_thresh, \* argument partial_thresh, in hundredths
    min_pages,      \* argument min_pages
    lsh_buckets,    \* the pairs of distinct signatures sharing an LSH bucket
    pc,             \* position of build_report
    items,          \* local items
    groups,         \* local groups
    seen,           \* local seen
    remaining,      \* local remaining
    lsh,            \* keys inserted in the MinHashLSH index
    used_in_group,  \* local used_in_group
    idx,            \* loop position (scan loop, then candidate loop)
    key,            \* local key of the last candidate-loop iteration
    candidates,     \* local candidates of the last iteration
    group_items,    \* local group_items of the last iteration
    final_group,    \* local final_group of the last iteration
    emitted,        \* whether the last iteration appended a group
    report,         \* the returned report
    first_report,   \* the report of the previous run on the same input
    \* ---- extract_entities_from_text (extractPDFdata.py:112-153) ----
    epc,               \* position of extract_entities_from_text and its caller
    combined_people,   \* local combined_people, in iteration order
    resolved_people,   \* local resolved_people
    unresolved_people, \* local unresolved_people
    clustered_unresolved, \* local clustered_unresolved
    edges,             \* edges of build_edges_json
    db_edges,          \* rows of table edges written by store_document_in_db
    \* ---- build (build.py:152-253) ----
    dataset,           \* the EFTA* folders, sorted: the five files of each
    mpc,               \* position of build
    fidx,              \* position of the folder loop
    all_documents,     \* local all_documents
    all_people,        \* local all_people: the records the people files hold
    all_edges,         \* local all_edges
    all_organizations, \* local all_organizations
    all_cases,         \* local all_cases
    consolidated_documents, \* local consolidated_documents
    seen_people,       \* local seen of merge_people, in insertion order
    midx,              \* position of the loop of merge_people
    outputs            \* the files written under assets/data

bvars == <<disk, files, near_thresh, partial_thresh, min_pages, lsh_buckets, pc,
           items,
           groups, seen, remaining, lsh, used_in_group, idx, key, candidates,
           group_items, final_group, emitted, report, first_report>>
evars == <<epc, combined_people, resolved_people, unresolved_people,
           clustered_unresolved, edges, db_edges>>
mvars == <<dataset, mpc, fidx, all_documents, all_people, all_edges,
           all_organizations, all_cases, consolidated_documents, seen_people,
           midx, outputs>>
vars == <<bvars, evars, mvars>>

None == "None"

(***************************************************************************)
(* Characters                                                              *)
(***************************************************************************)
Lower == {"a","b","c","d","e","f","g","h","i","j","k","l","m",
          "n","o","p","q","r","s","t","u","v","w","x","y","z"}
Upper == {"A","B","C","D","E","F","G","H","I","J","K","L","M",
          "N","O","P","Q","R","S","T","U","V","W","X","Y","Z"}
Whitespace == {" ", "\n", "\t"}

Max(a, b) == IF a >= b THEN a ELSE b

Range(q) == {q[i] : i \in DOMAIN q}

\* str.split(): the maximal runs of non-whitespace characters, in order
RECURSIVE SplitFrom(_, _, _)
SplitFrom(s, i, cur) ==
    IF i > Len(s)
    THEN IF cur = <<>> THEN <<>> ELSE <<cur>>
    ELSE IF s[i] \in Whitespace
         THEN IF cur = <<>> THEN SplitFrom(s, i + 1, <<>>)
              ELSE <<cur>> \o SplitFrom(s, i + 1, <<>>)
         ELSE SplitFrom(s, i + 1, Append(cur, s[i]))

Split(s) == SplitFrom(s, 1, <<>>)

\* " ".join(words)
RECURSIVE Join(_)
Join(words) ==
    IF words = <<>> THEN <<>>
    ELSE IF Len(words) = 1 THEN words[1]
    ELSE words[1] \o <<" ">> \o Join(Tail(words))

\* re.sub(r"\s+", " ", text) after text.replace("\n", " ")
RECURSIVE CollapseWs(_, _)
CollapseWs(s, i) ==
    IF i > Len(s) THEN <<>>
    ELSE IF s[i] \in Whitespace
         THEN IF i > 1 /\ s[i - 1] \in Whitespace
              THEN CollapseWs(s, i + 1)
              ELSE <<" ">> \o CollapseWs(s, i + 1)
         ELSE <<s[i]>> \o CollapseWs(s, i + 1)

\* re.sub(r"([a-z])([A-Z])", r"\1 \2", text)
RECURSIVE SplitJoins(_, _)
SplitJoins(s, i) ==
    IF i > Len(s) THEN <<>>
    ELSE IF i < Len(s) /\ s[i] \in Lower /\ s[i + 1] \in Upper
         THEN <<s[i], " ">> \o SplitJoins(s, i + 1)
         ELSE <<s[i]>> \o SplitJoins(s, i + 1)

\* str.strip()
RECURSIVE Strip(_)
Strip(s) ==
    IF s = <<>> THEN <<>>
    ELSE IF s[1] \in Whitespace THEN Strip(Tail(s))
    ELSE IF s[Len(s)] \in Whitespace THEN Strip(SubSeq(s, 1, Len(s) - 1))
    ELSE s

normalize_text(text) == Strip(SplitJoins(CollapseWs(text, 1), 1))

\* re.fullmatch(r"[A-Z]\.?", mid)
IsInitial(mid) ==
    \/ Len(mid) = 1 /\ mid[1] \in Upper
    \/ Len(mid) = 2 /\ mid[1] \in Upper /\ mid[2] = "."

strip_middle_initial(name) ==
    LET parts == Split(name)
    IN  IF Len(parts) = 3 /\ IsInitial(parts[2])
        THEN parts[1] \o <<" ">> \o parts[3]
        ELSE name

\* the k-word shingles of a text, k = 3
ShingleK == 3

text_to_shingles(text) ==
    LET words == Split(text)
    IN  IF Len(words) < ShingleK
        THEN IF words = <<>> THEN <<>> ELSE <<Join(words)>>
        ELSE [i \in 1 .. (Len(words) - ShingleK + 1) |->
                  Join(SubSeq(words, i, i + ShingleK - 1))]

(***************************************************************************)
(* difflib.SequenceMatcher(None, a, b).ratio() with no junk (autojunk only *)
(* applies to sequences of 200 or more elements).                          *)
(***************************************************************************)
\* length of the common run of a[i..ahi] and b[j..bhi]
RECURSIVE RunLen(_, _, _, _, _, _)
RunLen(a, b, i, j, ahi, bhi) ==
    IF i <= ahi /\ j <= bhi /\ a[i] = b[j]
    THEN 1 + RunLen(a, b, i + 1, j + 1, ahi, bhi)
    ELSE 0

\* the longest block starting in row i at a column >= j: <<column, size>>,
\* the earliest column among the longest
RECURSIVE RowBest(_, _, _, _, _, _)
RowBest(a, b, i, j, ahi, bhi) ==
    IF j > bhi THEN <<j, 0>>
    ELSE LET k == IF a[i] = b[j] THEN RunLen(a, b, i, j, ahi, bhi) ELSE 0
             rest == RowBest(a, b, i, j + 1, ahi, bhi)
         IN  IF k >= rest[2] THEN <<j, k>> ELSE rest

\* the longest block starting at a row >= i: <<row, column, size>>, the
\* earliest row among the longest, then the earliest column
RECURSIVE RowsBest(_, _, _, _, _, _)
RowsBest(a, b, i, blo, ahi, bhi) ==
    IF i > ahi THEN <<i, blo, 0>>
    ELSE LET r == RowBest(a, b, i, blo, ahi, bhi)
             rest == RowsBest(a, b, i + 1, blo, ahi, bhi)
         IN  IF r[2] >= rest[3] THEN <<i, r[1], r[2]>> ELSE rest

\* find_longest_match: the longest matching block of a[alo..ahi] and
\* b[blo..bhi], the one starting earliest in a, then earliest in b
find_longest_match(a, b, alo, ahi, blo, bhi) ==
    RowsBest(a, b, alo, blo, ahi, bhi)

\* the total size of get_matching_blocks() on a[alo..ahi], b[blo..bhi]
RECURSIVE MatchCount(_, _, _, _, _, _)
MatchCount(a, b, alo, ahi, blo, bhi) ==
    IF alo > ahi \/ blo > bhi THEN 0
    ELSE LET m == find_longest_match(a, b, alo, ahi, blo, bhi)
         IN  IF m[3] = 0 THEN 0
             ELSE m[3]
                  + MatchCount(a, b, alo, m[1] - 1, blo, m[2] - 1)
                  + MatchCount(a, b, m[1] + m[3], ahi, m[2] + m[3], bhi)

\* ratio(): 2.0 * matches / length, and 1.0 when both are empty
Ratio(a, b) ==
    IF Len(a) + Len(b) = 0 THEN <<1, 1>>
    ELSE <<2 * MatchCount(a, b, 1, Len(a), 1, Len(b)), Len(a) + Len(b)>>

\* r >= t / 100, r > t / 100, r >= q
AtLeast(r, t) == r[1] * 100 >= t * r[2]
Above(r, t) == r[1] * 100 > t * r[2]
RatioGe(r, q) == r[1] * q[2] >= q[1] * r[2]
RatioGt(r, q) == r[1] * q[2] > q[1] * r[2]

\* round(score, 3), in thousandths (ties to even)
Round3(r) ==
    LET n == r[1] * 1000
        q == n \div r[2]
        m == n % r[2]
    IN  IF 2 * m > r[2] THEN q + 1
        ELSE IF 2 * m < r[2] THEN q
        ELSE IF q % 2 = 0 THEN q ELSE q + 1



(***************************************************************************)
(* The known-identity index (PEOPLE_INDEX, extractPDFdata.py:46) and the   *)
(* candidate names a text can yield.                                       *)
(***************************************************************************)
GhislaineMaxwell == <<"G","h","i","s","l","a","i","n","e"," ","M","a","x","w","e","l","l">>
GhislaineMaxwellington == GhislaineMaxwell \o <<"i","n","g","t","o","n">>
GhislaineMaxwellingtons == GhislaineMaxwellington \o <<"s">>
AlGore == <<"A","l"," ","G","o","r","e">>
AlBGore == <<"A","l"," ","B","."," ","G","o","r","e">>
EdMcBee == <<"E","d"," ","M","c","B","e","e">>
HaroldWinterbury == <<"H","a","r","o","l","d"," ","W","i","n","t","e","r","b","u","r","y">>
HaroldWinterburys == HaroldWinterbury \o <<"s">>
HaroldWinterburyshires == HaroldWinterburys \o <<"h","i","r","e","s">>

PEOPLE_INDEX ==
    << [id |-> "p1", names |-> <<GhislaineMaxwell>>],
       [id |-> "p2", names |-> <<AlGore, AlBGore>>],
       [id |-> "p3", names |-> <<EdMcBee>>] >>

\* cleaned pattern hits and index hits (extractPDFdata.py:128-131)
NamePool ==
    { GhislaineMaxwell, GhislaineMaxwellington, GhislaineMaxwellingtons,
      AlGore, AlBGore, EdMcBee,
      HaroldWinterbury, HaroldWinterburys, HaroldWinterburyshires }

\* the strings score_person is applied to: normalised candidates against
\* aliases (canonicalize_person) and against each other (cluster_people)
ScoredNames ==
    {normalize_text(strip_middle_initial(n)) : n \in NamePool}
        \cup {normalize_text(n) : n \in NamePool}
KnownNames ==
    UNION { Range(PEOPLE_INDEX[p].names) : p \in DOMAIN PEOPLE_INDEX }

\* Ratio tabulated once over those strings
ScoreTable ==
    { <<a, b, Ratio(a, b)>> : a \in ScoredNames, b \in KnownNames \cup ScoredNames }

\* score_person: SequenceMatcher(None, candidate, known_name).ratio()
score_person(candidate, known_name) ==
    IF candidate \in ScoredNames /\ known_name \in KnownNames \cup ScoredNames
    THEN (CHOOSE t \in ScoreTable : t[1] = candidate /\ t[2] = known_name)[3]
    ELSE Ratio(candidate, known_name)

\* the most names one text yields
MaxNames == 3

\* the sequences of distinct names of NamePool of length 1 .. MaxNames
NameLists ==
    { q \in UNION { [1 .. n -> NamePool] : n \in 1 .. MaxNames } :
        \A i, j \in DOMAIN q : i /= j => q[i] /= q[j] }

\* threshold: float = 0.85 of canonicalize_person, and the 0.85 of
\* cluster_people, in hundredths
CanonThreshold == 85
ClusterThreshold == 85

\* Python truthiness of an id
Truthy(v) == v /= None /\ v /= ""

\* the inner loop of canonicalize_person over person["names"]; best is
\* <<best_match, best_score>>, best_match an index of people_index or 0
RECURSIVE ScanNames(_, _, _, _, _)
ScanNames(norm, people_index, p, k, best) ==
    IF k > Len(people_index[p].names) THEN best
    ELSE LET score == score_person(norm, people_index[p].names[k])
         IN  ScanNames(norm, people_index, p, k + 1,
                       IF RatioGt(score, best[2]) THEN <<p, score>> ELSE best)

\* the outer loop of canonicalize_person over people_index
RECURSIVE ScanPeople(_, _, _, _)
ScanPeople(norm, people_index, p, best) ==
    IF p > Len(people_index) THEN best
    ELSE ScanPeople(norm, people_index, p + 1,
                    ScanNames(norm, people_index, p, 1, best))

\* a score equal to the threshold does not resolve
canonicalize_person_Strict(name, people_index, threshold) ==
    LET norm == normalize_text(strip_middle_initial(name))
        best == ScanPeople(norm, people_index, 1, <<0, <<0, 1>>>>)
    IN  IF best[1] /= 0 /\ Above(best[2], threshold)
        THEN [id |-> people_index[best[1]].id,
              confidence |-> Round3(best[2]),
              matchedName |-> name]
        ELSE [id |-> None,
              confidence |-> Round3(best[2]),
              matchedName |-> name]

canonicalize_person(name, people_index, threshold) ==
    LET norm == normalize_text(strip_middle_initial(name))
        best == ScanPeople(norm, people_index, 1, <<0, <<0, 1>>>>)
    IN  IF best[1] /= 0 /\ AtLeast(best[2], threshold)
        THEN [id |-> people_index[best[1]].id,
              confidence |-> Round3(best[2]),
              matchedName |-> name]
        ELSE [id |-> None,
              confidence |-> Round3(best[2]),
              matchedName |-> name]

\* the first cluster, from k on, whose first member scores above 0.85
\* against name; 0 when there is none
RECURSIVE FirstCluster(_, _, _)
FirstCluster(name, clusters, k) ==
    IF k > Len(clusters) THEN 0
    ELSE IF Above(score_person(name, clusters[k][1]), ClusterThreshold) THEN k
    ELSE FirstCluster(name, clusters, k + 1)

RECURSIVE ClusterFrom(_, _, _)
ClusterFrom(unresolved, i, clusters) ==
    IF i > Len(unresolved) THEN clusters
    ELSE LET name == unresolved[i]
             k == FirstCluster(name, clusters, 1)
         IN  ClusterFrom(unresolved, i + 1,
                         IF k = 0 THEN Append(clusters, <<name>>)
                         ELSE [clusters EXCEPT ![k] = Append(@, name)])

cluster_people(unresolved) == ClusterFrom(unresolved, 1, <<>>)

\* [x for x in seq if keep(x)]
RECURSIVE SelectIds(_)
SelectIds(resolved) ==
    IF resolved = <<>> THEN <<>>
    ELSE IF Truthy(resolved[1].id)
         THEN <<resolved[1].id>> \o SelectIds(Tail(resolved))
         ELSE SelectIds(Tail(resolved))

build_mentions(resolved) == SelectIds(resolved)

\* the pairs (person_ids[i], p2) for p2 in person_ids[i+1:], i ascending
RECURSIVE PairsFrom(_, _, _)
PairsFrom(person_ids, i, j) ==
    IF i > Len(person_ids) THEN <<>>
    ELSE IF j > Len(person_ids) THEN PairsFrom(person_ids, i + 1, i + 2)
    ELSE <<<<person_ids[i], person_ids[j]>>>> \o PairsFrom(person_ids, i, j + 1)

build_edges_json(doc_id, person_ids) ==
    LET pairs == PairsFrom(person_ids, 1, 2)
    IN  [document_id |-> doc_id,
         edges |-> [n \in 1 .. Len(pairs) |->
                      [edge_id |-> <<"edge", doc_id, n>>,
                       source |-> pairs[n][1],
                       target |-> pairs[n][2],
                       relationship |-> "co_mentioned",
                       weight |-> 1]]]

\* the rows the edge loop of store_document_in_db submits, in order
StoreEdgeRows(doc_id, resolved) ==
    LET pairs == PairsFrom(SelectIds(resolved), 1, 2)
    IN  [n \in 1 .. Len(pairs) |->
            [document_id |-> doc_id,
             source |-> pairs[n][1],
             target |-> pairs[n][2],
             relationship |-> "co_mentioned"]]

DocId == "doc"

(***************************************************************************)
(* extract_entities_from_text and its callers, one document                *)
(***************************************************************************)
EInit ==
    /\ epc = "canonicalize"
    /\ combined_people \in NameLists
    /\ resolved_people = <<>>
    /\ unresolved_people = <<>>
    /\ clustered_unresolved = <<>>
    /\ edges = <<>>
    /\ db_edges = <<>>

\* one iteration of the loop at extractPDFdata.py:136-141
Canonicalize ==
    /\ epc = "canonicalize"
    /\ Len(resolved_people) + Len(unresolved_people) < Len(combined_people)
    /\ LET name == combined_people[Len(resolved_people)
                                   + Len(unresolved_people) + 1]
           result == canonicalize_person(name, PEOPLE_INDEX, CanonThreshold)
       IN  IF Truthy(result.id)
           THEN /\ resolved_people' = Append(resolved_people, result)
                /\ UNCHANGED unresolved_people
           ELSE /\ unresolved_people' =
                       Append(unresolved_people, normalize_text(name))
                /\ UNCHANGED resolved_people
    /\ UNCHANGED <<epc, combined_people, clustered_unresolved, edges, db_edges>>
    /\ UNCHANGED <<bvars, mvars>>

\* extractPDFdata.py:143-153
ClusterUnresolved ==
    /\ epc = "canonicalize"
    /\ Len(resolved_people) + Len(unresolved_people) = Len(combined_people)
    /\ clustered_unresolved' = cluster_people(unresolved_people)
    /\ epc' = "extracted"
    /\ UNCHANGED <<combined_people, resolved_people, unresolved_people,
                   edges, db_edges>>
    /\ UNCHANGED <<bvars, mvars>>

\* build_edges_json on the mentions of the resolved people
BuildEdges ==
    /\ epc = "extracted"
    /\ edges' = build_edges_json(DocId, build_mentions(resolved_people)).edges
    /\ epc' = "edges_built"
    /\ UNCHANGED <<combined_people, resolved_people, unresolved_people,
                   clustered_unresolved, db_edges>>
    /\ UNCHANGED <<bvars, mvars>>

\* the edge loop of store_document_in_db (utilities.py:201-208)
StoreDocument ==
    /\ epc = "edges_built"
    /\ db_edges' = StoreEdgeRows(DocId, resolved_people)
    /\ epc' = "stored"
    /\ UNCHANGED <<combined_people, resolved_people, unresolved_people,
                   clustered_unresolved, edges>>
    /\ UNCHANGED <<bvars, mvars>>

(***************************************************************************)
(* The files on disk.  A file is missing, or holds bytes; its bytes are a  *)
(* PDF that PyPDF2 reads (pages, raw text of the pages) or are not.        *)
(***************************************************************************)
TextA == <<"a","b"," ","c","d">>
TextB == <<"a","b"," "," ","c","d","\n">>
TextC == <<"a","b","C","d">>
TextEmpty == <<>>

PagesNone == -1

FilePool ==
    { [status |-> "ok", bytes |-> "b1", size |-> 50, pdf |-> TRUE,
       pages |-> 2, raw |-> TextA],
      [status |-> "ok", bytes |-> "b2", size |-> 52, pdf |-> TRUE,
       pages |-> 2, raw |-> TextB],
      [status |-> "ok", bytes |-> "b3", size |-> 49, pdf |-> TRUE,
       pages |-> 1, raw |-> TextC],
      [status |-> "ok", bytes |-> "b4", size |-> 40, pdf |-> TRUE,
       pages |-> 1, raw |-> TextEmpty],
      [status |-> "ok", bytes |-> "b5", size |-> 7, pdf |-> FALSE,
       pages |-> PagesNone, raw |-> TextEmpty],
      [status |-> "missing", bytes |-> "", size |-> 0, pdf |-> FALSE,
       pages |-> PagesNone, raw |-> TextEmpty] }

\* the most files find_pdfs returns
MaxFiles == 4

\* the trees under the root: paths 1 .. n, ordered as Path orders them
Disks == UNION { [1 .. n -> FilePool] : n \in 1 .. MaxFiles }

\* sorted(pdfs)
RECURSIVE Sorted(_)
Sorted(q) ==
    IF q = <<>> THEN <<>>
    ELSE LET m == CHOOSE x \in Range(q) : \A y \in Range(q) : x <= y
             NotMin(x) == x /= m
             IsMin(x) == x = m
         IN  SelectSeq(q, IsMin) \o Sorted(SelectSeq(q, NotMin))

\* find_pdfs: the paths in the order rglob lists them, sorted
find_pdfs(listing) == Sorted(listing)

NearChoices == {80, 90}
PartialChoices == {60, 80, 85}
MinPagesChoices == {0, 2}

\* the orders in which a set can be listed
RECURSIVE Orderings(_)
Orderings(S) ==
    IF S = {} THEN {<<>>}
    ELSE UNION { {<<x>> \o q : q \in Orderings(S \ {x})} : x \in S }

\* p.stat().st_size, or 0 when stat raises (extractPDFdata.py:198-201)
StatSize(f) == IF f.status = "ok" THEN f.size ELSE 0

\* sha256_file: the digest of the bytes; distinct bytes, distinct digests
sha256_file(f) == <<"sha256", f.bytes>>

\* len(PdfReader(path).pages), or None when it raises (lines 220-227)
PageCount(f) == IF f.status = "ok" /\ f.pdf THEN f.pages ELSE PagesNone

\* extract_text_from_pdf: "" when the reader raises
extract_text_from_pdf(f) == IF f.status = "ok" /\ f.pdf THEN f.raw ELSE <<>>

\* build_minhash: the signature is the elementwise minimum over the hashed
\* updates, a function of the set of updates: the shingles, or b""
build_minhash(text) ==
    LET shingles == text_to_shingles(text)
    IN  IF shingles = <<>> THEN {<<>>}
        ELSE {shingles[i] : i \in DOMAIN shingles}

\* the texts of the documents of FilePool
PoolTexts == {normalize_text(extract_text_from_pdf(f)) : f \in FilePool}

\* Ratio tabulated once over those texts
RatioTable == { <<a, b, Ratio(a, b)>> : a \in PoolTexts, b \in PoolTexts }

TextRatio(a, b) ==
    IF a \in PoolTexts /\ b \in PoolTexts
    THEN (CHOOSE t \in RatioTable : t[1] = a /\ t[2] = b)[3]
    ELSE Ratio(a, b)

\* 1.0 as soon as one of the texts is empty
similarity_EitherEmpty(a, b) ==
    IF a = <<>> \/ b = <<>> THEN <<1, 1>> ELSE TextRatio(a, b)

\* similarity (utilities.py:67-71)
similarity(a, b) ==
    IF a = <<>> /\ b = <<>> THEN <<1, 1>> ELSE TextRatio(a, b)

\* the pairs of distinct signatures among sigs
SigPairs(sigs) == {p \in SUBSET sigs : Cardinality(p) = 2}

\* the member record of a group or of the singleton list (lines 255-262)
FileRecord(g) ==
    [path |-> g.path, size |-> g.size, text |-> g.text,
     sha256 |-> g.sha256, pages |-> g.pages, minhash |-> g.minhash]

\* the members are listed last first
FileRecords_Reversed(q) == [i \in DOMAIN q |-> FileRecord(q[Len(q) + 1 - i])]

\* the list comprehensions of lines 253-263, 320-330 and 349-359
FileRecords(q) == [i \in DOMAIN q |-> FileRecord(q[i])]

\* a digest shared by exactly the members of a group of three or more
IsDuplicateSet_ThreeOrMore(group) == Len(group) > 2

\* line 249
IsDuplicateSet(group) == Len(group) > 1

\* the exact groups, in the order sha_map lists its keys (lines 245-266)
RECURSIVE ExactGroupsFrom(_, _)
ExactGroupsFrom(its, i) ==
    IF i > Len(its) THEN <<>>
    ELSE LET sha == its[i].sha256
             SameSha(g) == g.sha256 = sha
             group == SelectSeq(its, SameSha)
             isFirst == \A j \in 1 .. (i - 1) : its[j].sha256 /= sha
         IN  (IF isFirst /\ IsDuplicateSet(group)
              THEN << [type |-> "exact", sha256 |-> sha,
                       files |-> FileRecords(group)] >>
              ELSE <<>>)
             \o ExactGroupsFrom(its, i + 1)

\* the paths of the members of the groups gs
MemberPaths(gs) ==
    UNION { {gs[k].files[j].path : j \in DOMAIN gs[k].files} : k \in DOMAIN gs }

\* lsh.query(m): the inserted keys sharing a bucket with m
LshQuery(index, its, m) ==
    { k \in index :
        \E g \in Range(its) :
            /\ g.path = k
            /\ \/ g.minhash = m
               \/ {g.minhash, m} \in lsh_buckets }

\* every document is indexed, the members of exact groups too
RemainingItems_All(its, sn) == its

\* line 271
RemainingItems(its, sn) ==
    LET NotSeen(it) == it.path \notin sn
    IN  SelectSeq(its, NotSeen)

\* the documents already in a group are kept
GroupItems_KeepUsed(rem, cands, used) ==
    LET Keep(x) == x.path \in Range(cands)
    IN  SelectSeq(rem, Keep)

\* the documents are taken in the order the query lists them
GroupItems_QueryOrder(rem, cands, used) ==
    LET ItemOf(k) == CHOOSE x \in Range(rem) : x.path = k
        Unused(k) == k \notin used
        keys == SelectSeq(cands, Unused)
    IN  [i \in DOMAIN keys |-> ItemOf(keys[i])]

\* line 298
GroupItems(rem, cands, used) ==
    LET Keep(x) == x.path \in Range(cands) /\ x.path \notin used
    IN  SelectSeq(rem, Keep)

\* every candidate is admitted
Refine_AdmitAll(gitems, thresh) == gitems

\* the comparison of line 305 turned around
Refine_Inverted(gitems, thresh) ==
    LET Admit(cand) == ~ Above(similarity(gitems[1].text, cand.text), thresh)
    IN  <<gitems[1]>> \o SelectSeq(Tail(gitems), Admit)

\* lines 302-306
Refine(gitems, thresh) ==
    LET Admit(cand) == AtLeast(similarity(gitems[1].text, cand.text), thresh)
    IN  <<gitems[1]>> \o SelectSeq(Tail(gitems), Admit)

\* lines 309-314: the maximum over the ordered pairs of distinct members
RECURSIVE MaxSimFrom(_, _, _, _)
MaxSimFrom(fg, a, b, max_sim) ==
    IF a > Len(fg) THEN max_sim
    ELSE IF b > Len(fg) THEN MaxSimFrom(fg, a + 1, 1, max_sim)
    ELSE IF a = b THEN MaxSimFrom(fg, a, b + 1, max_sim)
    ELSE LET sim == similarity(fg[a].text, fg[b].text)
         IN  MaxSimFrom(fg, a, b + 1,
                        IF RatioGt(sim, max_sim) THEN sim ELSE max_sim)

MaxSim(fg) == MaxSimFrom(fg, 1, 1, <<0, 1>>)

\* near only above the threshold
GroupType_Strict(fg, near) == IF Above(MaxSim(fg), near) THEN "near" ELSE "partial"

\* line 315
GroupType(fg, near) == IF AtLeast(MaxSim(fg), near) THEN "near" ELSE "partial"

\* every document of the iteration is marked, admitted or not
MarkUsed_Candidates(used, fgroup, gitems) ==
    used \cup {gitems[j].path : j \in DOMAIN gitems}

\* lines 333-334
MarkUsed(used, fgroup, gitems) ==
    used \cup {fgroup[j].path : j \in DOMAIN fgroup}

\* the documents of no exact group are singletons
SingletonItems_IgnoreUsed(its, sn, used) ==
    LET Alone(it) == it.path \notin sn
    IN  SelectSeq(its, Alone)

\* line 337
SingletonItems(its, sn, used) ==
    LET Alone(it) == it.path \notin sn /\ it.path \notin used
    IN  SelectSeq(its, Alone)

CountType(gs, t) == Cardinality({k \in DOMAIN gs : gs[k].type = t})

(***************************************************************************)
(* build_report                                                            *)
(***************************************************************************)
NoReport == [summary |-> None]

Locals0 ==
    /\ items = <<>>
    /\ groups = <<>>
    /\ seen = {}
    /\ remaining = <<>>
    /\ lsh = {}
    /\ used_in_group = {}
    /\ idx = 0
    /\ key = 0
    /\ candidates = {}
    /\ group_items = <<>>
    /\ final_group = <<>>
    /\ emitted = FALSE
    /\ report = NoReport

BInit ==
    /\ disk \in Disks
    /\ files = <<>>
    /\ near_thresh = 0
    /\ partial_thresh = 0
    /\ min_pages = 0
    /\ lsh_buckets = {}
    /\ pc = "find"
    /\ first_report = NoReport
    /\ Locals0

inputs == <<disk, near_thresh, partial_thresh, min_pages, lsh_buckets>>
loopvars == <<key, candidates, group_items, final_group, emitted>>

\* main, line 511: files = find_pdfs(root)
FindPdfs ==
    /\ pc = "find"
    /\ \E listing \in Orderings(DOMAIN disk) : files' = find_pdfs(listing)
    /\ pc' = "stat"
    /\ UNCHANGED <<inputs, items, idx, groups, seen, remaining, lsh,
                   used_in_group, loopvars, report, first_report>>
    /\ UNCHANGED <<evars, mvars>>

\* main, lines 512-519: build_report is entered with the thresholds of the
\* command line (the same ones when main runs again); lines 193-212
StatFiles ==
    /\ pc = "stat"
    /\ \E near \in NearChoices, partial \in PartialChoices,
          pages \in MinPagesChoices :
          /\ first_report /= NoReport =>
                <<near, partial, pages>> = <<near_thresh, partial_thresh, min_pages>>
          /\ near_thresh' = near
          /\ partial_thresh' = partial
          /\ min_pages' = pages
    /\ items' = [i \in DOMAIN files |->
                    [path |-> files[i], name |-> files[i],
                     size |-> StatSize(disk[files[i]]),
                     sha256 |-> None, text |-> None, pages |-> PagesNone,
                     minhash |-> None]]
    /\ idx' = 1
    /\ pc' = "scan"
    /\ UNCHANGED <<disk, lsh_buckets, files, groups, seen, remaining, lsh,
                   used_in_group, loopvars, report, first_report>>
    /\ UNCHANGED <<evars, mvars>>

\* one iteration of the loop at lines 216-233
ScanItem ==
    /\ pc = "scan"
    /\ idx <= Len(items)
    /\ disk[items[idx].path].status = "ok"
    /\ LET f == disk[items[idx].path]
           text == extract_text_from_pdf(f)
       IN  items' = [items EXCEPT ![idx] =
                        [@ EXCEPT !.sha256 = sha256_file(f),
                                  !.pages = PageCount(f),
                                  !.text = normalize_text(text),
                                  !.minhash = build_minhash(text)]]
    /\ idx' = idx + 1
    /\ UNCHANGED <<inputs, files, pc, groups, seen, remaining, lsh, used_in_group,
                   loopvars, report, first_report>>
    /\ UNCHANGED <<evars, mvars>>

\* line 218: path.open raises out of sha256_file and out of build_report
ScanRaises ==
    /\ pc = "scan"
    /\ idx <= Len(items)
    /\ disk[items[idx].path].status /= "ok"
    /\ pc' = "raised"
    /\ UNCHANGED <<inputs, files, items, idx, groups, seen, remaining, lsh,
                   used_in_group, loopvars, report, first_report>>
    /\ UNCHANGED <<evars, mvars>>

\* lines 235-239
FilterMinPages ==
    /\ pc = "scan"
    /\ idx > Len(items)
    /\ LET Enough(i) ==
               (IF i.pages = PagesNone THEN 0 ELSE i.pages) >= min_pages
       IN  items' = IF min_pages > 0 THEN SelectSeq(items, Enough) ELSE items
    /\ pc' = "exact"
    /\ UNCHANGED <<inputs, files, idx, groups, seen, remaining, lsh, used_in_group,
                   loopvars, report, first_report>>
    /\ UNCHANGED <<evars, mvars>>

\* lines 241-268
ExactPass ==
    /\ pc = "exact"
    /\ groups' = ExactGroupsFrom(items, 1)
    /\ seen' = MemberPaths(groups')
    /\ pc' = "index"
    /\ UNCHANGED <<inputs, files, items, idx, remaining, lsh, used_in_group,
                   loopvars, report, first_report>>
    /\ UNCHANGED <<evars, mvars>>

\* lines 270-286: the signatures are inserted; which of them share a bucket
\* is fixed by the hash functions (the same ones when main runs again)
BuildIndex ==
    /\ pc = "index"
    /\ remaining' = RemainingItems(items, seen)
    /\ lsh' = {remaining'[i].path : i \in DOMAIN remaining'}
    /\ \E buckets \in SUBSET SigPairs({remaining'[i].minhash : i \in DOMAIN remaining'}) :
          /\ first_report /= NoReport => buckets = lsh_buckets
          /\ lsh_buckets' = buckets
    /\ used_in_group' = {}
    /\ idx' = 1
    /\ pc' = "candidates"
    /\ UNCHANGED <<disk, near_thresh, partial_thresh, min_pages, files, items,
                   groups, seen, loopvars, report, first_report>>
    /\ UNCHANGED <<evars, mvars>>

\* lines 288-291: a document already in a group is passed over
CandidateSkip ==
    /\ pc = "candidates"
    /\ idx <= Len(remaining)
    /\ remaining[idx].path \in used_in_group
    /\ idx' = idx + 1
    /\ key' = remaining[idx].path
    /\ candidates' = {}
    /\ group_items' = <<>>
    /\ final_group' = <<>>
    /\ emitted' = FALSE
    /\ UNCHANGED <<inputs, files, pc, items, groups, seen, remaining, lsh,
                   used_in_group, report, first_report>>
    /\ UNCHANGED <<evars, mvars>>

\* lines 288-334: one iteration that queries the index
CandidateStep ==
    /\ pc = "candidates"
    /\ idx <= Len(remaining)
    /\ remaining[idx].path \notin used_in_group
    /\ \E found \in Orderings(LshQuery(lsh, remaining, remaining[idx].minhash)) :
         LET k == remaining[idx].path
             cands == IF k \in Range(found) THEN found ELSE Append(found, k)
             gitems == GroupItems(remaining, cands, used_in_group)
             fgroup == IF Len(gitems) <= 1 THEN <<>>
                       ELSE Refine(gitems, partial_thresh)
         IN  /\ key' = k
             /\ candidates' = Range(cands)
             /\ group_items' = gitems
             /\ final_group' = fgroup
             /\ IF Len(fgroup) > 1
                THEN /\ groups' = Append(groups,
                                     [type |-> GroupType(fgroup, near_thresh),
                                      files |-> FileRecords(fgroup)])
                     /\ used_in_group' = MarkUsed(used_in_group, fgroup, gitems)
                     /\ emitted' = TRUE
                ELSE /\ UNCHANGED <<groups, used_in_group>>
                     /\ emitted' = FALSE
    /\ idx' = idx + 1
    /\ UNCHANGED <<inputs, files, pc, items, seen, remaining, lsh, report,
                   first_report>>
    /\ UNCHANGED <<evars, mvars>>

\* lines 336-361
Singletons ==
    /\ pc = "candidates"
    /\ idx > Len(remaining)
    /\ LET singletons == SingletonItems(items, seen, used_in_group)
       IN  report' =
             [summary |->
                 [total_files |-> Len(files),
                  scanned |-> Len(items),
                  exact_groups |-> CountType(groups, "exact"),
                  near_groups |-> CountType(groups, "near"),
                  partial_groups |-> CountType(groups, "partial"),
                  singletons |-> Len(singletons)],
              groups |-> groups,
              singletons |-> FileRecords(singletons)]
    /\ pc' = "done"
    /\ UNCHANGED <<inputs, files, items, idx, groups, seen, remaining, lsh,
                   used_in_group, loopvars, first_report>>
    /\ UNCHANGED <<evars, mvars>>

\* main runs again on the same files with the same arguments
Rerun ==
    /\ pc = "done"
    /\ first_report = NoReport
    /\ first_report' = report
    /\ pc' = "find"
    /\ files' = <<>>
    /\ items' = <<>>
    /\ groups' = <<>>
    /\ seen' = {}
    /\ remaining' = <<>>
    /\ lsh' = {}
    /\ used_in_group' = {}
    /\ idx' = 0
    /\ key' = 0
    /\ candidates' = {}
    /\ group_items' = <<>>
    /\ final_group' = <<>>
    /\ emitted' = FALSE
    /\ report' = NoReport
    /\ UNCHANGED inputs
    /\ UNCHANGED <<evars, mvars>>

(***************************************************************************)
(* build.py: JSON values.  A value carries its Python type: a str, a list  *)
(* (a sequence), a dict (a function of its keys) or None.  The records of  *)
(* the people, edges, organizations and cases lists are dicts, written as  *)
(* functions of their keys.  A field of a merged person that is the very   *)
(* dict object of input record j (not a copy) is written Ref(j).           *)
(***************************************************************************)
JStr(str) == [t |-> "str", v |-> str]
JList(q) == [t |-> "list", v |-> q]
JDict(f) == [t |-> "dict", v |-> f]
JNull == [t |-> "null", v |-> 0]
Ref(j) == [t |-> "ref", v |-> j]
NoKeys == [k \in {} |-> JNull]

\* Python truthiness of a JSON value
JTruthy(x) ==
    CASE x.t = "str" -> x.v /= ""
      [] x.t = "list" -> x.v /= <<>>
      [] x.t = "dict" -> DOMAIN x.v /= {}
      [] OTHER -> FALSE

\* d.get(k, default)
Get(d, k, default) == IF k \in DOMAIN d THEN d[k] ELSE default

\* the order in which the keys of a person record are written in its file
KeyOrder == <<"name", "tags", "meta">>

\* the value a field of a merged person holds: the input's dict itself when
\* the field was bound to it
Deref(x, k, input) == IF x.t = "ref" THEN input[x.v][k] ELSE x

\* existing[key] = value binds the field to the object value of record j
Alias(value, j) == IF value.t = "dict" THEN Ref(j) ELSE value

\* lines 65-76: the first occurrence of every item, in order
RECURSIVE Dedupe(_)
Dedupe(q) ==
    IF q = <<>> THEN <<>>
    ELSE LET last == q[Len(q)]
             front == Dedupe(SubSeq(q, 1, Len(q) - 1))
         IN  IF last \in Range(front) THEN front ELSE Append(front, last)

\* json.loads(json.dumps(person)): an equal record that shares no object
\* with person
DeepCopy(person) == person

\* lines 52-87: the field k of input record j merged into existing; st holds
\* existing and the input list, whose dicts line 83 may write
MergeField(st, j, k) ==
    LET value == st.input[j][k]
    IN  IF k \notin DOMAIN st.existing
        THEN [st EXCEPT !.existing = @ @@ (k :> Alias(value, j))]
        ELSE LET held == st.existing[k]
                 existing_val == Deref(held, k, st.input)
             IN  IF value.t = "list" /\ existing_val.t = "list"
                 THEN [st EXCEPT !.existing[k] =
                                    JList(Dedupe(existing_val.v \o value.v))]
                 ELSE IF value.t = "dict" /\ existing_val.t = "dict"
                 THEN LET merged == JDict(existing_val.v @@ value.v)
                      IN  IF held.t = "ref"
                          THEN [st EXCEPT !.input[held.v][k] = merged]
                          ELSE [st EXCEPT !.existing[k] = merged]
                 ELSE IF ~ JTruthy(existing_val) /\ JTruthy(value)
                 THEN [st EXCEPT !.existing[k] = Alias(value, j)]
                 ELSE st

\* lines 51-87: the fields of input record j, in the order of its keys
RECURSIVE MergeFields(_, _, _)
MergeFields(st, j, n) ==
    IF n > Len(KeyOrder) THEN st
    ELSE IF KeyOrder[n] \in DOMAIN st.input[j]
         THEN MergeFields(MergeField(st, j, KeyOrder[n]), j, n + 1)
         ELSE MergeFields(st, j, n + 1)

\* person.get('id')
PidOf(person) == Get(person, "id", JNull)

\* the position of pid in seen, 0 when it is not a key
SeenAt(seen_map, pid) ==
    IF \E n \in DOMAIN seen_map : seen_map[n].pid = pid
    THEN CHOOSE n \in DOMAIN seen_map : seen_map[n].pid = pid
    ELSE 0

\* list(seen.values()) of merge_people (line 89), each field with the value
\* it holds
PeopleValues(seen_map, input) ==
    [n \in DOMAIN seen_map |->
        [k \in DOMAIN seen_map[n].rec |->
            Deref(seen_map[n].rec[k], k, input)]]

\* merge_documents (lines 29-35) and merge_organizations (lines 143-150):
\* the first record of every id
RECURSIVE FirstById(_)
FirstById(q) ==
    IF q = <<>> THEN <<>>
    ELSE LET last == q[Len(q)]
             front == FirstById(SubSeq(q, 1, Len(q) - 1))
         IN  IF \E n \in DOMAIN front : Get(front[n], "id", JNull)
                                           = Get(last, "id", JNull)
             THEN front ELSE Append(front, last)

\* line 34: seen[doc['id']] raises KeyError on a record without id
RaisesKeyError(docs_list) == \E n \in DOMAIN docs_list : "id" \notin DOMAIN docs_list[n]

merge_documents(docs_list) == FirstById(docs_list)

merge_organizations(orgs_list) == FirstById(orgs_list)

\* sum(weights)
RECURSIVE SumSeq(_)
SumSeq(q) == IF q = <<>> THEN 0 ELSE q[Len(q)] + SumSeq(SubSeq(q, 1, Len(q) - 1))

\* round(total / n, 2), in hundredths
RoundHundredths(total, n) ==
    LET q == (100 * total) \div n
        m == (100 * total) % n
    IN  IF 2 * m > n THEN q + 1
        ELSE IF 2 * m < n THEN q
        ELSE IF q % 2 = 0 THEN q ELSE q + 1

\* merge_edges (lines 91-141)
merge_edges(edges_list) ==
    LET KeyOf(edge) == <<Get(edge, "source", None), Get(edge, "target", None)>>
        grouped == Dedupe([n \in DOMAIN edges_list |-> KeyOf(edges_list[n])])
    IN  [g \in DOMAIN grouped |->
            LET InGroup(edge) == KeyOf(edge) = grouped[g]
                members == SelectSeq(edges_list, InGroup)
                weights == [n \in DOMAIN members |-> Get(members[n], "weight", 1)]
            IN  [source |-> grouped[g][1],
                 target |-> grouped[g][2],
                 edges |-> [n \in DOMAIN members |->
                              [edge_id |-> Get(members[n], "edge_id", ""),
                               relationship |->
                                  Get(members[n], "relationship", "unknown"),
                               weight |-> weights[n]]],
                 avg_weight |-> IF weights = <<>> THEN 0
                                ELSE RoundHundredths(SumSeq(weights),
                                                     Len(weights))]]

(***************************************************************************)
(* build.py: the per-document files.  A file is missing, holds text that   *)
(* is not JSON, or holds a JSON value.                                     *)
(***************************************************************************)
Missing == [kind |-> "missing"]
Malformed == [kind |-> "malformed"]
Json(value) == [kind |-> "json", value |-> value]

\* load_json (lines 15-20) of a file json.load reads: every path build
\* passes ends with .json
load_json(file) == IF file.kind = "missing" THEN JList(<<>>) ELSE file.value

PersonA == [id |-> JStr("p1"), name |-> JStr("Al Gore")]
PersonB == [id |-> JStr("p1"), name |-> JStr(""), tags |-> JList(<<"pilot">>),
            meta |-> JDict([role |-> JStr("host")])]
PersonC == [id |-> JStr("p1"), tags |-> JList(<<"pilot", "guest">>),
            meta |-> JDict([born |-> JStr("1948")])]
PersonD == [id |-> JStr("p2"), name |-> JStr("Ed McBee"), meta |-> JDict(NoKeys)]
DocOne == [id |-> JStr("d1"), title |-> JStr("t1")]
DocTwo == [id |-> JStr("d2"), title |-> JStr("t2")]
DocNoId == [title |-> JStr("t3")]
OrgOne == [id |-> JStr("o1")]
CaseOne == [id |-> JStr("c1")]
CaseNoId == [title |-> JStr("c2")]
EdgeOne == [edge_id |-> "e1", source |-> "p1", target |-> "p2",
            relationship |-> "co_mentioned", weight |-> 1]
EdgeTwo == [source |-> "p1", target |-> "p2", weight |-> 2]

\* a folder as setup.py lays it out, filled in
BaseFolder ==
    [doc |-> Json(JDict(DocOne)),
     people |-> Json(JDict([people |-> JList(<<PersonA, PersonB>>)])),
     edges |-> Json(JDict([edges |-> JList(<<EdgeOne>>)])),
     org |-> Json(JList(<<OrgOne>>)),
     ref |-> Json(JList(<<CaseOne>>))]

DocFiles ==
    {Missing, Malformed, Json(JDict(DocTwo)), Json(JDict(DocNoId)),
     Json(JList(<<>>))}
PeopleFiles ==
    {Missing, Malformed, Json(JList(<<PersonC>>)),
     Json(JList(<<PersonD, PersonC>>)), Json(JStr("TODO"))}
EdgesFiles ==
    {Missing, Malformed, Json(JDict([edge |-> JList(<<EdgeTwo>>)])),
     Json(JList(<<EdgeOne, EdgeTwo>>))}
OrgFiles ==
    {Missing, Malformed, Json(JDict([organizations |-> JList(<<OrgOne>>)]))}
RefFiles ==
    {Missing, Malformed, Json(JDict([cases |-> JList(<<CaseOne>>)])),
     Json(JList(<<CaseNoId>>))}

\* the folders: the filled-in folder, with one of its files varied
FolderPool ==
    {BaseFolder}
        \cup {[BaseFolder EXCEPT !.doc = f] : f \in DocFiles}
        \cup {[BaseFolder EXCEPT !.people = f] : f \in PeopleFiles}
        \cup {[BaseFolder EXCEPT !.edges = f] : f \in EdgesFiles}
        \cup {[BaseFolder EXCEPT !.org = f] : f \in OrgFiles}
        \cup {[BaseFolder EXCEPT !.ref = f] : f \in RefFiles}

\* the most EFTA* folders under files/Dataset12
MaxFolders == 2

\* the order in which an iteration of the folder loop loads the files
FileOrder == <<"doc", "people", "edges", "org", "ref">>

\* whether json.load reads the first n files of a folder
Loads(folder, n) == \A i \in 1 .. n : folder[FileOrder[i]].kind /= "malformed"

\* lines 193-195
DocumentsOf(folder) ==
    LET doc_data == load_json(folder.doc)
    IN  IF doc_data.t = "dict" /\ JTruthy(Get(doc_data.v, "id", JNull))
        THEN <<doc_data.v>> ELSE <<>>

\* lines 198-202
PeopleOf(folder) ==
    LET people_data == load_json(folder.people)
    IN  IF people_data.t = "dict" /\ "people" \in DOMAIN people_data.v
        THEN people_data.v.people.v
        ELSE IF people_data.t = "list" THEN people_data.v ELSE <<>>

\* lines 205-212
EdgesOf(folder) ==
    LET edges_data == load_json(folder.edges)
    IN  IF edges_data.t = "dict" /\ "edges" \in DOMAIN edges_data.v
        THEN edges_data.v.edges.v
        ELSE IF edges_data.t = "dict" /\ "edge" \in DOMAIN edges_data.v
        THEN edges_data.v.edge.v
        ELSE IF edges_data.t = "list" THEN edges_data.v ELSE <<>>

\* lines 215-219
OrganizationsOf(folder) ==
    LET orgs_data == load_json(folder.org)
    IN  IF orgs_data.t = "list" THEN orgs_data.v
        ELSE IF orgs_data.t = "dict" /\ "organizations" \in DOMAIN orgs_data.v
        THEN orgs_data.v.organizations.v ELSE <<>>

\* lines 222-226
CasesOf(folder) ==
    LET ref_data == load_json(folder.ref)
    IN  IF ref_data.t = "list" THEN ref_data.v
        ELSE IF ref_data.t = "dict" /\ "cases" \in DOMAIN ref_data.v
        THEN ref_data.v.cases.v ELSE <<>>

(***************************************************************************)
(* build                                                                   *)
(***************************************************************************)
\* the folders of the dataset, sorted (line 172)
Datasets == UNION { [1 .. n -> FolderPool] : n \in 1 .. MaxFolders }

\* lines 157-178
MInit ==
    /\ dataset \in Datasets
    /\ mpc = "load"
    /\ fidx = 1
    /\ all_documents = <<>>
    /\ all_people = <<>>
    /\ all_edges = <<>>
    /\ all_organizations = <<>>
    /\ all_cases = <<>>
    /\ consolidated_documents = <<>>
    /\ seen_people = <<>>
    /\ midx = 0
    /\ outputs = <<>>

\* what the iteration of the folder loop has added when the first n files
\* of the folder were loaded
Loaded(folder, n, added) == IF Loads(folder, n) THEN added ELSE <<>>

LoadFiles(folder) ==
    /\ all_documents' = all_documents \o Loaded(folder, 1, DocumentsOf(folder))
    /\ all_people' = all_people \o Loaded(folder, 2, PeopleOf(folder))
    /\ all_edges' = all_edges \o Loaded(folder, 3, EdgesOf(folder))
    /\ all_organizations' =
          all_organizations \o Loaded(folder, 4, OrganizationsOf(folder))
    /\ all_cases' = all_cases \o Loaded(folder, 5, CasesOf(folder))

\* one iteration of the folder loop (lines 181-226)
LoadFolder ==
    /\ mpc = "load"
    /\ fidx <= Len(dataset)
    /\ Loads(dataset[fidx], 5)
    /\ LoadFiles(dataset[fidx])
    /\ fidx' = fidx + 1
    /\ UNCHANGED <<dataset, mpc, consolidated_documents, seen_people, midx,
                   outputs>>
    /\ UNCHANGED <<bvars, evars>>

\* line 20: json.load raises on a file that is not JSON, out of load_json
\* and out of build
LoadRaises ==
    /\ mpc = "load"
    /\ fidx <= Len(dataset)
    /\ ~ Loads(dataset[fidx], 5)
    /\ LoadFiles(dataset[fidx])
    /\ mpc' = "raised"
    /\ UNCHANGED <<dataset, fidx, consolidated_documents, seen_people, midx,
                   outputs>>
    /\ UNCHANGED <<bvars, evars>>

\* line 232, and the entry of merge_people (line 233)
MergeDocuments ==
    /\ mpc = "load"
    /\ fidx > Len(dataset)
    /\ consolidated_documents' = merge_documents(all_documents)
    /\ seen_people' = <<>>
    /\ midx' = 1
    /\ mpc' = "merge_people"
    /\ UNCHANGED <<dataset, fidx, all_documents, all_people, all_edges,
                   all_organizations, all_cases, outputs>>
    /\ UNCHANGED <<bvars, evars>>

\* one iteration of the loop of merge_people (lines 41-87)
MergePerson ==
    /\ mpc = "merge_people"
    /\ midx <= Len(all_people)
    /\ LET person == all_people[midx]
           pid == PidOf(person)
           at == SeenAt(seen_people, pid)
       IN  IF at = 0
           THEN /\ seen_people' = Append(seen_people,
                                    [pid |-> pid, rec |-> DeepCopy(person)])
                /\ UNCHANGED all_people
           ELSE LET st == MergeFields([existing |-> seen_people[at].rec,
                                       input |-> all_people], midx, 1)
                IN  /\ seen_people' =
                          [seen_people EXCEPT ![at].rec = st.existing]
                    /\ all_people' = st.input
    /\ midx' = midx + 1
    /\ UNCHANGED <<dataset, mpc, fidx, all_documents, all_edges,
                   all_organizations, all_cases, consolidated_documents,
                   outputs>>
    /\ UNCHANGED <<bvars, evars>>

\* lines 234-253: the other lists are merged and the five files written
SaveAll ==
    /\ mpc = "merge_people"
    /\ midx > Len(all_people)
    /\ ~ RaisesKeyError(all_cases)
    /\ outputs' =
          [documents |-> consolidated_documents,
           people |-> PeopleValues(seen_people, all_people),
           edges |-> merge_edges(all_edges),
           organizations |-> merge_organizations(all_organizations),
           cases |-> merge_documents(all_cases)]
    /\ mpc' = "done"
    /\ UNCHANGED <<dataset, fidx, all_documents, all_people, all_edges,
                   all_organizations, all_cases, consolidated_documents,
                   seen_people, midx>>
    /\ UNCHANGED <<bvars, evars>>

\* line 236: merge_documents raises on a case without id, before any file
\* is written
CasesRaise ==
    /\ mpc = "merge_people"
    /\ midx > Len(all_people)
    /\ RaisesKeyError(all_cases)
    /\ mpc' = "raised"
    /\ UNCHANGED <<dataset, fidx, all_documents, all_people, all_edges,
                   all_organizations, all_cases, consolidated_documents,
                   seen_people, midx, outputs>>
    /\ UNCHANGED <<bvars, evars>>

(***************************************************************************)
(* Specifications                                                          *)
(***************************************************************************)
EIdle ==
    /\ epc = "idle"
    /\ combined_people = <<>>
    /\ resolved_people = <<>>
    /\ unresolved_people = <<>>
    /\ clustered_unresolved = <<>>
    /\ edges = <<>>
    /\ db_edges = <<>>

BIdle ==
    /\ disk = <<>>
    /\ files = <<>>
    /\ near_thresh = 0
    /\ partial_thresh = 0
    /\ min_pages = 0
    /\ lsh_buckets = {}
    /\ pc = "idle"
    /\ first_report = NoReport
    /\ Locals0

MIdle ==
    /\ dataset = <<>>
    /\ mpc = "idle"
    /\ fidx = 0
    /\ all_documents = <<>>
    /\ all_people = <<>>
    /\ all_edges = <<>>
    /\ all_organizations = <<>>
    /\ all_cases = <<>>
    /\ consolidated_documents = <<>>
    /\ seen_people = <<>>
    /\ midx = 0
    /\ outputs = <<>>

\* build_report
Init == BInit /\ EIdle /\ MIdle
Next ==
    \/ FindPdfs
    \/ StatFiles
    \/ ScanItem
    \/ ScanRaises
    \/ FilterMinPages
    \/ ExactPass
    \/ BuildIndex
    \/ CandidateSkip
    \/ CandidateStep
    \/ Singletons
Spec == Init /\ [][Next]_vars

\* build_report, run twice on the same input
RerunNext == Next \/ Rerun
SpecRerun == Init /\ [][RerunNext]_vars

\* extract_entities_from_text and the edges of one document
EntInit == EInit /\ BIdle /\ MIdle
EntNext ==
    \/ Canonicalize
    \/ ClusterUnresolved
    \/ BuildEdges
    \/ StoreDocument
SpecEntities == EntInit /\ [][EntNext]_vars

\* build
BuildInit == MInit /\ BIdle /\ EIdle
BuildNext ==
    \/ LoadFolder
    \/ LoadRaises
    \/ MergeDocuments
    \/ MergePerson
    \/ SaveAll
    \/ CasesRaise
SpecBuild == BuildInit /\ [][BuildNext]_vars

(***************************************************************************)
(* Properties of build_report                                              *)
(***************************************************************************)
GroupPaths(g) == {g.files[j].path : j \in DOMAIN g.files}
Done == pc = "done"
ExactGroups(gs) == {k \in DOMAIN gs : gs[k].type = "exact"}
OtherGroups(gs) == {k \in DOMAIN gs : gs[k].type /= "exact"}

\* C1: in the report, and in the groups built so far, no path is a member
\* of two groups, whatever their types
C1_AtMostOneGroup ==
    /\ \A k1, k2 \in DOMAIN groups :
          k1 /= k2 => GroupPaths(groups[k1]) \cap GroupPaths(groups[k2]) = {}
    /\ Done =>
          \A k1, k2 \in DOMAIN report.groups :
              k1 /= k2 => GroupPaths(report.groups[k1])
                            \cap GroupPaths(report.groups[k2]) = {}

\* a report with an exact group and a near or partial group
C1_Witness ==
    /\ Done
    /\ ExactGroups(report.groups) /= {}
    /\ OtherGroups(report.groups) /= {}

\* C2: in the report, two scanned documents with the same bytes are members
\* of one exact group, and two with different digests share no exact group
C2_ExactHash ==
    Done =>
        \A a, b \in DOMAIN items :
            a /= b =>
                /\ disk[items[a].path].bytes = disk[items[b].path].bytes
                      => \E k \in ExactGroups(report.groups) :
                            {items[a].path, items[b].path}
                                \subseteq GroupPaths(report.groups[k])
                /\ items[a].sha256 /= items[b].sha256
                      => \A k \in ExactGroups(report.groups) :
                            ~ ({items[a].path, items[b].path}
                                 \subseteq GroupPaths(report.groups[k]))

\* a report with an exact group and a scanned document of other bytes
C2_Witness ==
    /\ Done
    /\ \E k \in ExactGroups(report.groups) :
          \E a \in DOMAIN items :
              items[a].path \notin GroupPaths(report.groups[k])

\* C3: a near or partial group has at least two members, and it is near
\* exactly when some pair of distinct members has similarity >= near_thresh
C3_TierCorrect ==
    \A k \in OtherGroups(groups) :
        LET fs == groups[k].files
        IN  /\ Len(fs) >= 2
            /\ groups[k].type \in {"near", "partial"}
            /\ groups[k].type = "near" <=>
                   \E a, b \in DOMAIN fs :
                       /\ a /= b
                       /\ AtLeast(similarity(fs[a].text, fs[b].text),
                                  near_thresh)

\* a report with a near group whose greatest similarity is the threshold
\* itself
C3_Witness ==
    /\ Done
    /\ \E k \in OtherGroups(report.groups) :
          /\ report.groups[k].type = "near"
          /\ ~ Above(MaxSim(report.groups[k].files), near_thresh)

\* C4: a file that cannot be read never aborts the scan: build_report
\* returns, the failing document has size 0, no page count and an empty
\* text, and every file of the list is in the report when no page filter
\* is set
C4_ScanNeverAborts ==
    /\ pc /= "raised"
    /\ Done =>
          /\ \A i \in DOMAIN items :
                disk[items[i].path].status /= "ok" =>
                    /\ items[i].size = 0
                    /\ items[i].pages = PagesNone
                    /\ items[i].text = <<>>
          /\ min_pages = 0 => {items[i].path : i \in DOMAIN items} = Range(files)

\* the members of the exact groups
ExactPaths(gs) == UNION {GroupPaths(gs[k]) : k \in ExactGroups(gs)}

\* C8: no member of an exact group is in the LSH index, none is a candidate
\* of a query, and none is a member of a near or partial group
C8_ExactNotIndexed ==
    /\ lsh \cap ExactPaths(groups) = {}
    /\ candidates \cap ExactPaths(groups) = {}
    /\ \A k \in OtherGroups(groups) :
          GroupPaths(groups[k]) \cap ExactPaths(groups) = {}

\* a report with an exact group and a near or partial group, a member of
\* which has the signature of a member of the exact group
C8_Witness ==
    /\ Done
    /\ \E k \in OtherGroups(report.groups), e \in ExactGroups(report.groups) :
          \E a \in DOMAIN report.groups[k].files,
             b \in DOMAIN report.groups[e].files :
                report.groups[k].files[a].minhash
                    = report.groups[e].files[b].minhash

\* the thresholds compared
ThresholdChoices == NearChoices \cup PartialChoices \cup {0, 100}

\* C9: for the anchor and the candidates of an iteration, the members
\* admitted under a threshold are among those admitted under any lower one
C9_ThresholdMonotone ==
    Len(group_items) >= 1 =>
        \A lo, hi \in ThresholdChoices :
            lo <= hi => Range(Refine(group_items, hi))
                          \subseteq Range(Refine(group_items, lo))

\* an iteration where raising the threshold removes a member
C9_Witness ==
    /\ Len(group_items) >= 2
    /\ \E lo, hi \in ThresholdChoices :
          /\ lo < hi
          /\ Len(Refine(group_items, hi)) < Len(Refine(group_items, lo))
          /\ Len(Refine(group_items, hi)) > 1

\* C10: a second run on the same files with the same thresholds returns the
\* report of the first run
C10_Deterministic ==
    (Done /\ first_report /= NoReport) => report = first_report

\* a second run that reports a group of three documents
C10_Witness ==
    /\ Done
    /\ first_report /= NoReport
    /\ \E k \in OtherGroups(report.groups) : Len(report.groups[k].files) >= 3

\* the file metadata records of a report: group members and singletons
ReportRecords(rep) ==
    UNION { Range(rep.groups[k].files) : k \in DOMAIN rep.groups }
        \cup Range(rep.singletons)

\* C11: no file metadata record of the report, of a group member or of a
\* singleton, has the field holding the raw MinHash signature
C11_NoRawSignature ==
    Done => \A r \in ReportRecords(report) : "minhash" \notin DOMAIN r

\* the position of a path in the input file list
ScanPos(path) == CHOOSE i \in DOMAIN files : files[i] = path

\* C12: the members of every group are listed in scan order, so that member
\* 0 is the member that comes first in the input file list
C12_MembersInScanOrder ==
    \A k \in DOMAIN groups :
        LET fs == groups[k].files
        IN  /\ \A a, b \in DOMAIN fs :
                  a < b => ScanPos(fs[a].path) < ScanPos(fs[b].path)
            /\ \A b \in DOMAIN fs :
                  ScanPos(fs[1].path) <= ScanPos(fs[b].path)

\* a report with an exact group and a near or partial group, each with a
\* member that does not directly follow the previous member in the file list
C12_Witness ==
    /\ Done
    /\ \E k \in ExactGroups(report.groups) :
          ScanPos(report.groups[k].files[2].path)
              > ScanPos(report.groups[k].files[1].path) + 1
    /\ \E k \in OtherGroups(report.groups) :
          ScanPos(report.groups[k].files[2].path)
              > ScanPos(report.groups[k].files[1].path) + 1

\* the items the scan loop has completed
Scanned(i) ==
    /\ pc \notin {"idle", "find", "stat"}
    /\ pc \in {"scan", "raised"} => i < idx

\* C13: with partial_thresh > 0 no near or partial group has a member of
\* empty text beside a member of non-empty text; a document of empty text
\* gets the signature of the empty update, and the scan raises on no
\* readable file
C13_EmptyNeverWithNonEmpty ==
    /\ partial_thresh > 0 =>
          \A k \in OtherGroups(groups) :
              \A a, b \in DOMAIN groups[k].files :
                  groups[k].files[a].text = <<>>
                      => groups[k].files[b].text = <<>>
    /\ \A i \in DOMAIN items :
          (Scanned(i) /\ items[i].text = <<>>) => items[i].minhash = {<<>>}
    /\ pc = "raised" => disk[items[idx].path].status /= "ok"

\* an iteration whose candidates hold a document of empty text and one of
\* non-empty text, and that emits a group
C13_Witness ==
    /\ pc = "candidates"
    /\ emitted
    /\ partial_thresh > 0
    /\ \E a, b \in DOMAIN group_items :
          /\ group_items[a].text = <<>>
          /\ group_items[b].text /= <<>>

\* the paths of a list of items
PathsOf(q) == {q[j].path : j \in DOMAIN q}

\* C15: in every near or partial group each member after member 0 has a
\* similarity to member 0 of at least partial_thresh, and the members of the
\* group an iteration emits are among the candidates of its query
C15_MembersAdmitted ==
    /\ \A k \in OtherGroups(groups) :
          \A j \in 2 .. Len(groups[k].files) :
              AtLeast(similarity(groups[k].files[1].text,
                                 groups[k].files[j].text), partial_thresh)
    /\ (pc = "candidates" /\ emitted) =>
          /\ groups[Len(groups)].files = FileRecords(final_group)
          /\ PathsOf(final_group) \subseteq candidates
          /\ candidates \subseteq
                LshQuery(lsh, remaining, remaining[idx - 1].minhash) \cup {key}

\* an iteration that emits a group, admits a member whose similarity to the
\* anchor is the threshold itself and rejects another candidate
C15_Witness ==
    /\ pc = "candidates"
    /\ emitted
    /\ Len(final_group) < Len(group_items)
    /\ \E j \in 2 .. Len(final_group) :
          ~ Above(similarity(final_group[1].text, final_group[j].text),
                  partial_thresh)

\* C16: an iteration of the candidate pass adds to the used set exactly the
\* members of the group it emits, and nothing when it emits none; the
\* document it queries with and the documents it considers are unused
C16_UsedOnlyWhenGrouped ==
    [][ (pc = "candidates" /\ idx' = idx + 1) =>
          /\ used_in_group' = used_in_group
                \cup (IF emitted' THEN PathsOf(final_group') ELSE {})
          /\ emitted' => /\ Len(groups') = Len(groups) + 1
                         /\ GroupPaths(groups'[Len(groups')])
                                = PathsOf(final_group')
          /\ ~ emitted' => groups' = groups
          /\ PathsOf(group_items') \cap used_in_group = {}
          /\ candidates' /= {} => key' \notin used_in_group
          /\ used_in_group' = UNION {GroupPaths(groups'[k]) :
                                        k \in OtherGroups(groups')}
      ]_vars

\* an iteration emits a group with a member that an earlier iteration
\* considered and left unused: the member was queried before, with an
\* earlier unused document among its candidates
C16_Witness ==
    /\ pc = "candidates"
    /\ emitted
    /\ \E m \in DOMAIN remaining, x \in DOMAIN remaining :
          /\ x < m
          /\ m < idx - 1
          /\ remaining[m].path \in PathsOf(final_group)
          /\ remaining[x].path \notin used_in_group
          /\ {remaining[x].minhash, remaining[m].minhash} \in lsh_buckets

\* C18: the document an iteration queries with is a member of the group
\* the iteration emits
C18_QueriedIsMember ==
    (pc = "candidates" /\ emitted) => key \in PathsOf(final_group)

\* the number of members of the first n groups
RECURSIVE GroupSizes(_, _)
GroupSizes(gs, n) ==
    IF n = 0 THEN 0 ELSE Len(gs[n].files) + GroupSizes(gs, n - 1)

\* the number of times a path is listed in the report
Listed(rep, path) ==
    Cardinality({<<k, j>> \in (DOMAIN rep.groups) \X (1 .. MaxFiles) :
                    /\ j \in DOMAIN rep.groups[k].files
                    /\ rep.groups[k].files[j].path = path})
    + Cardinality({j \in DOMAIN rep.singletons :
                      rep.singletons[j].path = path})

\* C19: every scanned document is listed exactly once in the report, as a
\* group member or as a singleton, no other document is listed, and the
\* counts of the summary add up
C19_ReportPartitions ==
    Done =>
        /\ \A i \in DOMAIN items : Listed(report, items[i].path) = 1
        /\ \A r \in ReportRecords(report) : r.path \in PathsOf(items)
        /\ report.summary.scanned = Len(items)
        /\ report.summary.singletons = Len(report.singletons)
        /\ report.summary.scanned
              = GroupSizes(report.groups, Len(report.groups))
                  + report.summary.singletons
        /\ report.summary.exact_groups + report.summary.near_groups
              + report.summary.partial_groups = Len(report.groups)

\* a report with a near or partial group and two singletons, one of them a
\* document the group's iteration considered and rejected
C19_Witness ==
    /\ Done
    /\ report.summary.near_groups + report.summary.partial_groups = 1
    /\ report.summary.singletons = 2
    /\ \E j \in DOMAIN report.singletons :
          report.singletons[j].path \in PathsOf(group_items)

(***************************************************************************)
(* Properties of the entity extraction                                     *)
(***************************************************************************)
ResolvedIds == {resolved_people[i].id : i \in DOMAIN resolved_people}

\* es holds one edge per unordered pair of resolved identities, none from
\* an identity to itself, each tagged co_mentioned
OneEdgePerPair(es) ==
    LET pairs == {p \in SUBSET ResolvedIds : Cardinality(p) = 2}
    IN  /\ \A n \in DOMAIN es :
              /\ es[n].source /= es[n].target
              /\ es[n].relationship = "co_mentioned"
        /\ \A p \in pairs :
              Cardinality({n \in DOMAIN es :
                              {es[n].source, es[n].target} = p}) = 1
        /\ Len(es) = Cardinality(pairs)

\* C5: the edges of build_edges_json, and the rows store_document_in_db
\* submits, are exactly one co_mentioned edge per unordered pair of resolved
\* identities, of weight 1, and none has its source as its target
C5_OneEdgePerPair ==
    /\ epc \in {"edges_built", "stored"} =>
          /\ OneEdgePerPair(edges)
          /\ \A n \in DOMAIN edges : edges[n].weight = 1
    /\ epc = "stored" => OneEdgePerPair(db_edges)

\* the position of a cluster member in the input of cluster_people
PosOf(name) == CHOOSE i \in DOMAIN unresolved_people : unresolved_people[i] = name

\* the clusters partition the input, members and clusters in input order
ClustersKeepInput ==
    /\ \A k \in DOMAIN clustered_unresolved :
          \A j \in DOMAIN clustered_unresolved[k] :
              /\ clustered_unresolved[k][j] \in Range(unresolved_people)
              /\ j > 1 => PosOf(clustered_unresolved[k][j - 1])
                            < PosOf(clustered_unresolved[k][j])
    /\ \A i \in DOMAIN unresolved_people :
          \E k \in DOMAIN clustered_unresolved :
              unresolved_people[i] \in Range(clustered_unresolved[k])

\* C6: every name is in the first cluster whose first member scores >= 0.85
\* against it, and opens a cluster only when no earlier cluster's first
\* member scores >= 0.85
C6_ClusterAtThreshold ==
    epc \in {"extracted", "edges_built", "stored"} =>
        /\ ClustersKeepInput
        /\ \A k \in DOMAIN clustered_unresolved :
              \A j \in DOMAIN clustered_unresolved[k] :
                  LET name == clustered_unresolved[k][j]
                  IN  /\ j > 1 =>
                            AtLeast(score_person(name, clustered_unresolved[k][1]),
                                    ClusterThreshold)
                      /\ \A e \in 1 .. (k - 1) :
                            ~ AtLeast(score_person(name, clustered_unresolved[e][1]),
                                      ClusterThreshold)

\* the names the loop of extract_entities_from_text has passed
Processed == 1 .. (Len(resolved_people) + Len(unresolved_people))

\* the scores of a name against every alias of the index
AliasScores(name) ==
    {score_person(normalize_text(strip_middle_initial(name)), a) : a \in KnownNames}

BestAliasScore(name) ==
    CHOOSE r \in AliasScores(name) : \A q \in AliasScores(name) : RatioGe(r, q)

\* the identities with an alias of the best score
BestIdentities(name) ==
    {PEOPLE_INDEX[p].id : p \in
        {p \in DOMAIN PEOPLE_INDEX :
            \E a \in Range(PEOPLE_INDEX[p].names) :
                score_person(normalize_text(strip_middle_initial(name)), a)
                    = BestAliasScore(name)}}

\* C7: a name whose best alias score is >= 0.85 is listed as resolved, with
\* the id of an identity of that score; a name whose best score is below
\* 0.85 is listed as unresolved, with no id
C7_CanonicalizeAtThreshold ==
    epc /= "idle" =>
    \A i \in Processed :
        LET name == combined_people[i]
            hits == {r \in DOMAIN resolved_people :
                        resolved_people[r].matchedName = name}
        IN  IF AtLeast(BestAliasScore(name), CanonThreshold)
            THEN /\ Cardinality(hits) = 1
                 /\ \A r \in hits :
                       /\ resolved_people[r].id \in BestIdentities(name)
                       /\ resolved_people[r].confidence
                             = Round3(BestAliasScore(name))
                 /\ normalize_text(name) \notin Range(unresolved_people)
            ELSE /\ hits = {}
                 /\ normalize_text(name) \in Range(unresolved_people)
                 /\ canonicalize_person(name, PEOPLE_INDEX, CanonThreshold).id = None

\* a name scoring exactly 0.85 is resolved and a name scoring below it is not
C7_Witness ==
    /\ epc = "extracted"
    /\ \E i \in Processed :
          /\ BestAliasScore(combined_people[i]) = <<34, 40>>
          /\ \E r \in DOMAIN resolved_people :
                resolved_people[r].matchedName = combined_people[i]
    /\ \E i \in Processed :
          /\ ~ AtLeast(BestAliasScore(combined_people[i]), CanonThreshold)
          /\ AtLeast(BestAliasScore(combined_people[i]), CanonThreshold - 5)
          /\ normalize_text(combined_people[i]) \in Range(unresolved_people)

(***************************************************************************)
(* Properties of build                                                     *)
(***************************************************************************)
\* the files build writes
OutputNames == {"documents", "people", "edges", "organizations", "cases"}

\* the folders none of whose files is malformed
SoundFolders == {n \in DOMAIN dataset : Loads(dataset[n], 5)}

\* C14: a missing or malformed per-document file never stops the build: it
\* ends with the five consolidated files written, and the document of every
\* folder whose files are sound is among the documents written
C14_BuildTolerates ==
    /\ mpc /= "raised"
    /\ mpc = "done" =>
          /\ DOMAIN outputs = OutputNames
          /\ \A n \in SoundFolders :
                \A d \in Range(DocumentsOf(dataset[n])) :
                    \E o \in Range(outputs.documents) : o.id = d.id

\* the list merge_people is called with
RECURSIVE PeopleUpTo(_)
PeopleUpTo(n) ==
    IF n = 0 THEN <<>> ELSE PeopleUpTo(n - 1) \o PeopleOf(dataset[n])

\* C17: while merge_people runs and after it returns, every record of the
\* list it was called with has the value it had at the call
C17_InputUnchanged ==
    mpc \in {"merge_people", "done"} => all_people = PeopleUpTo(Len(dataset))

====
